---- MODULE Spec2Model ----
(***************************************************************************)
(* Model of web-services/python-api/app.py: the Flask service that tracks  *)
(* two dependencies (postgres, redis), keeps request metrics in            *)
(* prometheus_client objects and in the network_data dictionary, and runs  *)
(* fire-and-forget background threads from /api/simulate-load.             *)
(*                                                                         *)
(* One process is modelled.  It is either run as a script (__main__:       *)
(* connect_postgres, connect_redis, app.run(debug=True)) or imported by a  *)
(* WSGI server (no connect call, Flask's default debug=False).  Requests   *)
(* are served by concurrent threads; every statement of the hooks that     *)
(* touches shared state is one step.                                       *)
(***************************************************************************)
EXTENDS Integers, FiniteSets, TLC

\* ------------------------------------------------------------------ bounds
MaxReq == 2          \* request threads the model follows

\* ------------------------------------------------------- program constants
LoadTestTTL == 300   \* expiry of a load_test key
NetworkTestTTL == 60 \* expiry of a network_test key

Req == 1..MaxReq
Dep == {"postgres", "redis"}
Clients == {"10.0.0.1", "10.0.0.2"}
Endpoints == {"health_check", "prometheus_metrics", "network_test", "simulate_load"}
Statuses == {200, 500}
Labels == {"GET"} \X Endpoints \X Statuses

None == "None"
Conn == "conn"

VARIABLES
    launch,                \* "main": run as a script; "import": loaded by a WSGI server
    proc,                  \* position of the module's top-level code
    debug,                 \* app.debug
    reachable,             \* environment: whether each dependency answers
    postgres_conn,
    redis_client,
    service_health,        \* network_data['service_health']
    DATABASE_CONNECTIONS,  \* gauge value per database label that has been set
    connect_result,        \* what each connect call gave its caller
    request_count,         \* network_data['request_count']
    unique_clients,        \* network_data['unique_clients']
    ACTIVE_CONNECTIONS,
    REQUEST_COUNT,         \* counter value per (method, endpoint, status)
    REQUEST_DURATION,      \* histogram: number of observations
    pc,                    \* per request thread: position
    client,                \* per request: client_ip
    endpoint,              \* per request: request.endpoint
    loaded,                \* per request: value read by the load of line 81 (0 once stored)
    response,              \* per request: the response made for it
    task,                  \* per request: state of the thread started by simulate_load
    cache                  \* contents of the redis server

depVars == <<postgres_conn, redis_client, service_health, DATABASE_CONNECTIONS, connect_result>>
trackVars == <<request_count, unique_clients, ACTIVE_CONNECTIONS, REQUEST_COUNT, REQUEST_DURATION>>
reqVars == <<pc, client, endpoint, loaded, response>>
envVars == <<reachable>>
vars == <<launch, proc, debug, envVars, depVars, trackVars, reqVars, task, cache>>

NoResponse == [status |-> 0, body |-> [kind |-> "none"]]

Init ==
    /\ launch \in {"main", "import"}
    /\ proc = IF launch = "main" THEN "L282" ELSE "serving"
    /\ debug = FALSE
    /\ reachable \in [Dep -> BOOLEAN]
    /\ postgres_conn = None
    /\ redis_client = None
    /\ service_health = [d \in Dep |-> FALSE]
    /\ DATABASE_CONNECTIONS = [d \in {} |-> 0]
    /\ connect_result = [d \in Dep |-> "not called"]
    /\ request_count = 0
    /\ unique_clients = {}
    /\ ACTIVE_CONNECTIONS = 0
    /\ REQUEST_COUNT = [l \in Labels |-> 0]
    /\ REQUEST_DURATION = 0
    /\ pc = [r \in Req |-> "idle"]
    /\ client = [r \in Req |-> None]
    /\ endpoint = [r \in Req |-> None]
    /\ loaded = [r \in Req |-> 0]
    /\ response = [r \in Req |-> NoResponse]
    /\ task = [r \in Req |-> "none"]
    /\ cache = {}

\* ------------------------------------------------------------ environment
\* A dependency starts or stops answering.
dependency_changes(d, b) ==
    /\ reachable[d] # b
    /\ reachable' = [reachable EXCEPT ![d] = b]
    /\ UNCHANGED <<launch, proc, debug, depVars, trackVars, reqVars, task, cache>>

\* Gauge.labels(database=d).set(v): the labelled child is made on first use.
Gauge_set_up(g, d, v) == [x \in DOMAIN g \cup {d} |-> IF x = d THEN 1 ELSE g[x]]

Gauge_set(g, d, v) == [x \in DOMAIN g \cup {d} |-> IF x = d THEN v ELSE g[x]]

\* ------------------------------------------------- startup (script launch)
\* connect_postgres(): psycopg2.connect either returns a connection or raises;
\* the except clause catches every Exception.
connect_postgres_uncaught(ok) == IF ok THEN "True" ELSE "raised"

connect_postgres_result(ok) == IF ok THEN "True" ELSE "False"

connect_postgres ==
    /\ proc = "L282"
    /\ LET ok == reachable["postgres"] IN
        /\ postgres_conn' = IF ok THEN Conn ELSE postgres_conn
        /\ service_health' = [service_health EXCEPT !["postgres"] = ok]
        /\ DATABASE_CONNECTIONS' = Gauge_set(DATABASE_CONNECTIONS, "postgres", IF ok THEN 1 ELSE 0)
        /\ connect_result' = [connect_result EXCEPT !["postgres"] = connect_postgres_result(ok)]
    /\ proc' = "L283"
    /\ UNCHANGED <<launch, debug, envVars, redis_client, trackVars, reqVars, task, cache>>

\* connect_redis(): redis.Redis(...) only builds the client object (it opens no
\* connection) and is assigned to the global before ping() is tried, so a failed
\* ping leaves the client in place.
connect_redis_result(ok) == IF ok THEN "True" ELSE "False"

\* As connect_redis, with the health map rebuilt from this attempt alone.
connect_redis_clobbering ==
    /\ proc = "L283"
    /\ LET ok == reachable["redis"] IN
        /\ redis_client' = Conn
        /\ service_health' = [d \in Dep |-> ok]
        /\ DATABASE_CONNECTIONS' = Gauge_set(DATABASE_CONNECTIONS, "redis", IF ok THEN 1 ELSE 0)
        /\ connect_result' = [connect_result EXCEPT !["redis"] = connect_redis_result(ok)]
    /\ proc' = "L294"
    /\ UNCHANGED <<launch, debug, envVars, postgres_conn, trackVars, reqVars, task, cache>>

connect_redis ==
    /\ proc = "L283"
    /\ LET ok == reachable["redis"] IN
        /\ redis_client' = Conn
        /\ service_health' = [service_health EXCEPT !["redis"] = ok]
        /\ DATABASE_CONNECTIONS' = Gauge_set(DATABASE_CONNECTIONS, "redis", IF ok THEN 1 ELSE 0)
        /\ connect_result' = [connect_result EXCEPT !["redis"] = connect_redis_result(ok)]
    /\ proc' = "L294"
    /\ UNCHANGED <<launch, debug, envVars, postgres_conn, trackVars, reqVars, task, cache>>

\* app.run(host='0.0.0.0', port=5000, debug=True)
app_run ==
    /\ proc = "L294"
    /\ proc' = "serving"
    /\ debug' = TRUE
    /\ UNCHANGED <<launch, envVars, depVars, trackVars, reqVars, task, cache>>

\* ---------------------------------------------------------- before_request
\* Requests take the request slots in order (the slots are interchangeable).
FirstIdle(r) == pc[r] = "idle" /\ \A q \in Req : q < r => pc[q] # "idle"

\* Line 81, first half: the read of network_data['request_count'].
before_request_load(r, c, e) ==
    /\ proc = "serving"
    /\ FirstIdle(r)
    /\ client' = [client EXCEPT ![r] = c]
    /\ endpoint' = [endpoint EXCEPT ![r] = e]
    /\ loaded' = [loaded EXCEPT ![r] = request_count]
    /\ pc' = [pc EXCEPT ![r] = "L81"]
    /\ UNCHANGED <<launch, proc, debug, envVars, depVars, trackVars, response, task, cache>>

\* Line 81, second half: the store of the incremented value.
before_request_store(r) ==
    /\ pc[r] = "L81"
    /\ request_count' = loaded[r] + 1
    /\ loaded' = [loaded EXCEPT ![r] = 0]
    /\ pc' = [pc EXCEPT ![r] = "L83"]
    /\ UNCHANGED <<launch, proc, debug, envVars, depVars, unique_clients, ACTIVE_CONNECTIONS,
                   REQUEST_COUNT, REQUEST_DURATION, client, endpoint, response, task, cache>>

\* As before_request_add, with the set replaced instead of added to.
before_request_add_overwriting(r) ==
    /\ pc[r] = "L83"
    /\ unique_clients' = {client[r]}
    /\ pc' = [pc EXCEPT ![r] = "L86"]
    /\ UNCHANGED <<launch, proc, debug, envVars, depVars, request_count, ACTIVE_CONNECTIONS,
                   REQUEST_COUNT, REQUEST_DURATION, client, endpoint, loaded, response, task, cache>>

\* Line 83: set.add is one call.
before_request_add(r) ==
    /\ pc[r] = "L83"
    /\ unique_clients' = unique_clients \cup {client[r]}
    /\ pc' = [pc EXCEPT ![r] = "L86"]
    /\ UNCHANGED <<launch, proc, debug, envVars, depVars, request_count, ACTIVE_CONNECTIONS,
                   REQUEST_COUNT, REQUEST_DURATION, client, endpoint, loaded, response, task, cache>>

\* prometheus_client's Gauge.inc/dec and Counter.inc run under the value's lock.
Gauge_inc(g) == g + 1
Gauge_reset(g) == 0

Gauge_dec(g) == g - 1
Counter_set(c, l) == [c EXCEPT ![l] = 1]

Counter_inc(c, l) == [c EXCEPT ![l] = @ + 1]

\* Line 86.
before_request_inc(r) ==
    /\ pc[r] = "L86"
    /\ ACTIVE_CONNECTIONS' = Gauge_inc(ACTIVE_CONNECTIONS)
    /\ pc' = [pc EXCEPT ![r] = "dispatch"]
    /\ UNCHANGED <<launch, proc, debug, envVars, depVars, request_count, unique_clients,
                   REQUEST_COUNT, REQUEST_DURATION, client, endpoint, loaded, response, task, cache>>

\* ------------------------------------------------------------ the handlers
\* A view function returned `body`: Flask's finalize_request runs after_request.
Returned(r, body) ==
    /\ response' = [response EXCEPT ![r] = [status |-> 200, body |-> body]]
    /\ pc' = [pc EXCEPT ![r] = "L92"]

\* A view function raised.  Flask's handle_exception re-raises to the WSGI server
\* when app.debug is set (the after_request functions are not called: the
\* debugger answers); otherwise it makes a 500 response and finalizes it.
Raised(r) ==
    IF debug
    THEN /\ response' = [response EXCEPT ![r] = [status |-> 500, body |-> [kind |-> "debugger"]]]
         /\ pc' = [pc EXCEPT ![r] = "propagated"]
    ELSE /\ response' = [response EXCEPT ![r] = [status |-> 500, body |-> [kind |-> "InternalServerError"]]]
         /\ pc' = [pc EXCEPT ![r] = "L92"]

\* /health
health_check_body == [kind |-> "health", status |-> "healthy", services |-> service_health]

\* As health_check, failing the request when a dependency is recorded Down.
health_check_strict(r) ==
    /\ pc[r] = "dispatch" /\ endpoint[r] = "health_check"
    /\ IF \A d \in Dep : service_health[d]
       THEN Returned(r, health_check_body)
       ELSE Raised(r)
    /\ UNCHANGED <<launch, proc, debug, envVars, depVars, trackVars, client, endpoint, loaded, task, cache>>

health_check(r) ==
    /\ pc[r] = "dispatch" /\ endpoint[r] = "health_check"
    /\ Returned(r, health_check_body)
    /\ UNCHANGED <<launch, proc, debug, envVars, depVars, trackVars, client, endpoint, loaded, task, cache>>

\* /metrics: generate_latest() renders the registry.
generate_latest ==
    [kind |-> "metrics",
     http_requests_total |-> REQUEST_COUNT,
     http_request_duration_seconds_count |-> REQUEST_DURATION,
     active_connections |-> ACTIVE_CONNECTIONS,
     database_connections |-> DATABASE_CONNECTIONS]

prometheus_metrics(r) ==
    /\ pc[r] = "dispatch" /\ endpoint[r] = "prometheus_metrics"
    /\ Returned(r, generate_latest)
    /\ UNCHANGED <<launch, proc, debug, envVars, depVars, trackVars, client, endpoint, loaded, task, cache>>

\* A write to the redis server: a key holds one value.  Keys are named by their
\* prefix; the int(time.time()) suffix is left out.
CachePut(c, key, ttl) == {e \in c : e.key # key} \cup {[key |-> key, ttl |-> ttl]}

\* /api/network-test
network_test_postgres ==
    IF postgres_conn # None
    THEN (IF reachable["postgres"] THEN "connected" ELSE "error")
    ELSE "not_connected"

network_test_redis ==
    IF redis_client # None
    THEN (IF reachable["redis"] THEN "connected" ELSE "error")
    ELSE "not_connected"

\* As network_test, with the recorded health taken from the outcome of the tests.
network_test_inferring(r) ==
    /\ pc[r] = "dispatch" /\ endpoint[r] = "network_test"
    /\ cache' = IF redis_client # None /\ reachable["redis"]
                THEN CachePut(cache, "network_test", NetworkTestTTL)
                ELSE cache
    /\ service_health' = [postgres |-> network_test_postgres = "connected",
                          redis |-> network_test_redis = "connected"]
    /\ Returned(r, [kind |-> "tests", postgres |-> network_test_postgres,
                    redis |-> network_test_redis])
    /\ UNCHANGED <<launch, proc, debug, envVars, postgres_conn, redis_client, DATABASE_CONNECTIONS,
                   connect_result, trackVars, client, endpoint, loaded, task>>

network_test(r) ==
    /\ pc[r] = "dispatch" /\ endpoint[r] = "network_test"
    /\ cache' = IF redis_client # None /\ reachable["redis"]
                THEN CachePut(cache, "network_test", NetworkTestTTL)
                ELSE cache
    /\ Returned(r, [kind |-> "tests", postgres |-> network_test_postgres,
                    redis |-> network_test_redis])
    /\ UNCHANGED <<launch, proc, debug, envVars, depVars, trackVars, client, endpoint, loaded, task>>

\* /api/simulate-load, line 248: thread.start() starts background_task, or raises
\* RuntimeError when no thread can be started.
simulate_load_start(r, started) ==
    /\ pc[r] = "dispatch" /\ endpoint[r] = "simulate_load"
    /\ IF started
       THEN /\ task' = [task EXCEPT ![r] = "running"]
            /\ pc' = [pc EXCEPT ![r] = "L250"]
            /\ UNCHANGED response
       ELSE /\ Raised(r)
            /\ UNCHANGED task
    /\ UNCHANGED <<launch, proc, debug, envVars, depVars, trackVars, client, endpoint, loaded, cache>>

\* As simulate_load_return, after a thread.join().
simulate_load_join(r) ==
    /\ pc[r] = "L250"
    /\ task[r] # "running"
    /\ Returned(r, [kind |-> "ack", message |-> "Load simulation started"])
    /\ UNCHANGED <<launch, proc, debug, envVars, depVars, trackVars, client, endpoint, loaded, task, cache>>

\* Lines 250-254: the acknowledgement.
simulate_load_return(r) ==
    /\ pc[r] = "L250"
    /\ Returned(r, [kind |-> "ack", message |-> "Load simulation started"])
    /\ UNCHANGED <<launch, proc, debug, envVars, depVars, trackVars, client, endpoint, loaded, task, cache>>

\* ------------------------------------------------------- background_task
\* How the thread ends (lines 243-244).  "dropped": no client, nothing written;
\* "written": setex stored the result; "raised": setex raised and the exception
\* ended the thread.
background_task_outcome_inverted(rc, up) ==
    IF rc # None THEN "dropped" ELSE IF up THEN "written" ELSE "raised"

background_task_outcome(rc, up) ==
    IF rc = None THEN "dropped" ELSE IF up THEN "written" ELSE "raised"

\* As background_task, with the exception of setex handed to the request.
background_task_surfacing(r) ==
    /\ task[r] = "running"
    /\ LET out == background_task_outcome(redis_client, reachable["redis"]) IN
        /\ task' = [task EXCEPT ![r] = out]
        /\ cache' = IF out = "written"
                    THEN CachePut(cache, "load_test", LoadTestTTL)
                    ELSE cache
        /\ response' = IF out = "raised"
                       THEN [response EXCEPT ![r] = [status |-> 500, body |-> [kind |-> "InternalServerError"]]]
                       ELSE response
    /\ UNCHANGED <<launch, proc, debug, envVars, depVars, trackVars, pc, client, endpoint, loaded>>

\* The thread body, lines 235-244: the loop touches nothing shared.
background_task(r) ==
    /\ task[r] = "running"
    /\ LET out == background_task_outcome(redis_client, reachable["redis"]) IN
        /\ task' = [task EXCEPT ![r] = out]
        /\ cache' = IF out = "written"
                    THEN CachePut(cache, "load_test", LoadTestTTL)
                    ELSE cache
    /\ UNCHANGED <<launch, proc, debug, envVars, depVars, trackVars, reqVars>>

\* ----------------------------------------------------------- after_request
RequestLabels(r) == <<"GET", endpoint[r], response[r].status>>

\* Lines 92-96.
after_request_count(r) ==
    /\ pc[r] = "L92"
    /\ REQUEST_COUNT' = Counter_inc(REQUEST_COUNT, RequestLabels(r))
    /\ pc' = [pc EXCEPT ![r] = "L98"]
    /\ UNCHANGED <<launch, proc, debug, envVars, depVars, request_count, unique_clients,
                   ACTIVE_CONNECTIONS, REQUEST_DURATION, client, endpoint, loaded, response, task, cache>>

\* Line 98.
after_request_dec(r) ==
    /\ pc[r] = "L98"
    /\ ACTIVE_CONNECTIONS' = Gauge_dec(ACTIVE_CONNECTIONS)
    /\ pc' = [pc EXCEPT ![r] = "done"]
    /\ UNCHANGED <<launch, proc, debug, envVars, depVars, request_count, unique_clients,
                   REQUEST_COUNT, REQUEST_DURATION, client, endpoint, loaded, response, task, cache>>

\* ---------------------------------------------------------- specifications
Environment == \E d \in Dep, b \in BOOLEAN : dependency_changes(d, b)

Startup == connect_postgres \/ connect_redis \/ app_run

Hooks ==
    \/ \E r \in Req : before_request_store(r)
    \/ \E r \in Req : before_request_add(r)
    \/ \E r \in Req : before_request_inc(r)
    \/ \E r \in Req : after_request_count(r)
    \/ \E r \in Req : after_request_dec(r)

\* The whole service.
Next ==
    \/ Environment
    \/ Startup
    \/ \E r \in Req, c \in Clients, e \in Endpoints : before_request_load(r, c, e)
    \/ Hooks
    \/ \E r \in Req : health_check(r)
    \/ \E r \in Req : prometheus_metrics(r)
    \/ \E r \in Req : network_test(r)
    \/ \E r \in Req, s \in BOOLEAN : simulate_load_start(r, s)
    \/ \E r \in Req : simulate_load_return(r)
    \/ \E r \in Req : background_task(r)

Spec == Init /\ [][Next]_vars

\* The service under requests to /health and /metrics from one client.
NextRead ==
    \/ Environment
    \/ Startup
    \/ \E r \in Req, e \in {"health_check", "prometheus_metrics"} :
            before_request_load(r, "10.0.0.1", e)
    \/ Hooks
    \/ \E r \in Req : health_check(r)
    \/ \E r \in Req : prometheus_metrics(r)

SpecRead == Init /\ [][NextRead]_vars

\* The service under requests to /api/simulate-load from one client, while the
\* redis server comes and goes (postgres stays as it was at the start).
NextLoad ==
    \/ \E b \in BOOLEAN : dependency_changes("redis", b)
    \/ Startup
    \/ \E r \in Req : before_request_load(r, "10.0.0.1", "simulate_load")
    \/ Hooks
    \/ \E r \in Req, s \in BOOLEAN : simulate_load_start(r, s)
    \/ \E r \in Req : simulate_load_return(r)
    \/ \E r \in Req : background_task(r)

SpecLoad == Init /\ [][NextLoad]_vars

\* The service under requests that read or use the dependencies (/health,
\* /api/network-test, /api/simulate-load) from one client, while the redis
\* server comes and goes (postgres stays as it was at the start).
NextUse ==
    \/ \E b \in BOOLEAN : dependency_changes("redis", b)
    \/ Startup
    \/ \E r \in Req, e \in {"health_check", "network_test", "simulate_load"} :
            before_request_load(r, "10.0.0.1", e)
    \/ Hooks
    \/ \E r \in Req : health_check(r)
    \/ \E r \in Req : network_test(r)
    \/ \E r \in Req, s \in BOOLEAN : simulate_load_start(r, s)
    \/ \E r \in Req : simulate_load_return(r)
    \/ \E r \in Req : background_task(r)

SpecUse == Init /\ [][NextUse]_vars

\* The service under requests to /health from every client.
NextClients ==
    \/ Startup
    \/ \E r \in Req, c \in Clients : before_request_load(r, c, "health_check")
    \/ Hooks
    \/ \E r \in Req : health_check(r)

SpecClients == Init /\ [][NextClients]_vars

\* Every started thread is scheduled again: a request thread and a background
\* thread that can take a step eventually takes it.  Nothing is assumed of the
\* environment or of the arrival of requests.
ThreadsRun ==
    \A r \in Req :
        /\ WF_vars(before_request_store(r))
        /\ WF_vars(before_request_add(r))
        /\ WF_vars(before_request_inc(r))
        /\ WF_vars(\E s \in BOOLEAN : simulate_load_start(r, s))
        /\ WF_vars(simulate_load_return(r))
        /\ WF_vars(after_request_count(r))
        /\ WF_vars(after_request_dec(r))
        /\ WF_vars(background_task(r))

FairLoad == SpecLoad /\ WF_vars(Startup) /\ ThreadsRun

\* Only the background threads are assumed to be scheduled.
FairTasks == SpecLoad /\ \A r \in Req : WF_vars(background_task(r))

\* ================================================================== claims
Ended(r) == pc[r] \in {"done", "propagated"}
TaskEnded(r) == task[r] \in {"dropped", "written", "raised"}
LoadTestEntry == [key |-> "load_test", ttl |-> LoadTestTTL]

\* C1: the exported request counter of every (method, endpoint, status) equals
\* the number of requests with these labels whose after_request has counted
\* them, under every interleaving: no increment is lost.
C1_NoLostIncrement ==
    \A l \in Labels :
        generate_latest.http_requests_total[l]
            = Cardinality({r \in Req : pc[r] \in {"L98", "done"} /\ RequestLabels(r) = l})

\* Every request has finished with the same labels and the counter shows them all.
C1_Witness ==
    /\ \A r \in Req : pc[r] = "done" /\ RequestLabels(r) = <<"GET", "health_check", 200>>
    /\ REQUEST_COUNT[<<"GET", "health_check", 200>>] = MaxReq

\* C2: once every started request has ended, normally or by a raise, the
\* active-requests gauge is back at its value before the requests (0).
C2_GaugeRestored ==
    (\A r \in Req : pc[r] = "idle" \/ Ended(r)) => ACTIVE_CONNECTIONS = 0

\* C3: the status reported by /health is "healthy" if and only if every
\* dependency is recorded Up.
C3_HealthyIffAllUp ==
    \A r \in Req :
        response[r].body.kind = "health" =>
            (response[r].body.status = "healthy" <=> \A d \in Dep : response[r].body.services[d])

\* C4: a dependency recorded Up that has become unreachable while the service
\* runs is eventually recorded Down.
C4_DownDetected ==
    \A d \in Dep :
        (proc = "serving" /\ service_health[d] /\ ~reachable[d]) ~> ~service_health[d]

\* C5: a connect call gives its caller True or False and never an exception;
\* True with the dependency recorded Up, False with it recorded Down.
C5_ConnectReturnsResult ==
    \A d \in Dep :
        /\ connect_result[d] \in {"not called", "True", "False"}
        /\ connect_result[d] = "True" => service_health[d]
        /\ connect_result[d] = "False" => ~service_health[d]

\* One connect has failed and the other has succeeded.
C5_Witness ==
    /\ connect_result["postgres"] = "False" /\ ~service_health["postgres"]
    /\ connect_result["redis"] = "True" /\ service_health["redis"]

\* C6: once simulate_load has started the thread, its return is possible
\* whatever the state of the thread, and the acknowledgement it returns is the
\* same whatever the thread did.
C6_SubmitNeverWaits ==
    \A r \in Req :
        /\ pc[r] = "L250" => ENABLED simulate_load_return(r)
        /\ (endpoint[r] = "simulate_load" /\ response[r].status = 200) =>
                response[r].body = [kind |-> "ack", message |-> "Load simulation started"]

\* A request has been answered and finished while its thread still runs.
C6_Witness ==
    \E r \in Req : pc[r] = "done" /\ response[r].status = 200 /\ task[r] = "running"

\* C7: every started background thread eventually ends, and a thread that ends
\* while the service holds a redis client and the redis server answers has
\* written its result under a load_test key with the expiry LoadTestTTL.
C7_TaskEndsAndWrites ==
    /\ \A r \in Req : (task[r] = "running") ~> TaskEnded(r)
    /\ [][\A r \in Req :
            (task[r] = "running" /\ task'[r] # "running"
                /\ redis_client # None /\ reachable["redis"])
            => (task'[r] = "written" /\ LoadTestEntry \in cache')]_vars

\* A thread has ended with its result in the cache.
C7_Witness ==
    \E r \in Req : task[r] = "written" /\ LoadTestEntry \in cache

\* C8: with redis recorded Down, a background thread ends without attempting a
\* cache write and without an error.
C8_DroppedWhenDown ==
    \A r \in Req : (TaskEnded(r) /\ ~service_health["redis"]) => task[r] = "dropped"

\* C9: the failure of a background thread changes no response and no request's
\* position, leaves every other thread as it is and the service serving; and a
\* running thread can always take its step, and a free request thread can
\* always take a request, whatever has failed.
C9_TaskFailureIsolated ==
    /\ [][\A r \in Req :
            (task[r] = "running" /\ task'[r] = "raised")
            => /\ response' = response
               /\ pc' = pc
               /\ proc' = proc
               /\ \A q \in Req \ {r} : task'[q] = task[q]]_vars
    /\ [](\A q \in Req : task[q] = "running" => ENABLED background_task(q))
    /\ []((proc = "serving" /\ \E r \in Req : pc[r] = "idle")
            => ENABLED (\E r \in Req : before_request_load(r, "10.0.0.1", "simulate_load")))

\* A thread has failed, its submitter keeps its acknowledgement, and another
\* thread has ended with its result written.
C9_Witness ==
    \E r, q \in Req :
        /\ task[r] = "raised" /\ pc[r] = "done" /\ response[r].status = 200
        /\ task[q] = "written"

\* C10: the duration histogram holds one observation per finished request.
C10_OneObservationPerFinish ==
    REQUEST_DURATION = Cardinality({r \in Req : pc[r] = "done"})

\* C11: a connect attempt, successful or failed, leaves the other dependency's
\* recorded health, gauge and handle as they were, and after connect_redis,
\* whatever its outcome, the service goes on to app.run and serves.
GaugeOf(g, d) == IF d \in DOMAIN g THEN g[d] ELSE -1

C11_ConnectTouchesOwnDependency ==
    /\ [][/\ (proc = "L282" /\ proc' # proc) =>
                /\ service_health'["redis"] = service_health["redis"]
                /\ GaugeOf(DATABASE_CONNECTIONS', "redis") = GaugeOf(DATABASE_CONNECTIONS, "redis")
                /\ redis_client' = redis_client
          /\ (proc = "L283" /\ proc' # proc) =>
                /\ service_health'["postgres"] = service_health["postgres"]
                /\ GaugeOf(DATABASE_CONNECTIONS', "postgres") = GaugeOf(DATABASE_CONNECTIONS, "postgres")
                /\ postgres_conn' = postgres_conn]_vars
    /\ [](proc = "L294" => ENABLED app_run)
    /\ []((proc = "serving" /\ \E r \in Req : pc[r] = "idle")
            => ENABLED (\E r \in Req : before_request_load(r, "10.0.0.1", "health_check")))

\* The redis connect has failed, postgres is still recorded Up with its handle
\* and gauge, and a request has been served.
C11_Witness ==
    /\ connect_result["redis"] = "False" /\ connect_result["postgres"] = "True"
    /\ service_health["postgres"] /\ postgres_conn = Conn
    /\ GaugeOf(DATABASE_CONNECTIONS, "postgres") = 1
    /\ \E r \in Req : pc[r] = "done" /\ response[r].status = 200

\* C12: once the service serves, no step changes the recorded health or a
\* connection handle: not /health, not the tests of /api/network-test, not a
\* background thread's cache write, whether they succeed or fail.
C12_TrafficLeavesHealth ==
    [][proc = "serving" =>
        /\ service_health' = service_health
        /\ postgres_conn' = postgres_conn
        /\ redis_client' = redis_client]_vars

\* A network test and a background write have failed on redis, /health has been
\* read, and redis is still recorded Up.
C12_Witness ==
    /\ service_health["redis"]
    /\ \E r \in Req : response[r].body.kind = "tests" /\ response[r].body.redis = "error"
    /\ \E r \in Req : task[r] = "raised"

\* C13: whatever the dependencies' recorded states, a request to /health or to
\* /metrics that has been handled has a 200 response.
C13_ReadEndpointsSucceed ==
    \A r \in Req :
        (endpoint[r] \in {"health_check", "prometheus_metrics"}
            /\ pc[r] \in {"L92", "L98", "done", "propagated"})
        => response[r].status = 200

\* With redis recorded Down and postgres Up, /health and /metrics have both
\* been answered with 200.
C13_Witness ==
    /\ service_health["postgres"] /\ ~service_health["redis"]
    /\ \E r, q \in Req :
        /\ pc[r] = "done" /\ endpoint[r] = "health_check" /\ response[r].status = 200
        /\ pc[q] = "done" /\ endpoint[q] = "prometheus_metrics" /\ response[q].status = 200

\* C14: the client set is exactly the set of the clients of the requests whose
\* before_request has passed line 83, under every interleaving, and it never
\* loses an element.
C14_ClientSetExact ==
    /\ [](unique_clients = {client[r] : r \in {q \in Req : pc[q] \notin {"idle", "L81", "L83"}}})
    /\ [][unique_clients \subseteq unique_clients']_vars

\* Every request has finished and both clients are in the set.
C14_Witness ==
    /\ \A r \in Req : pc[r] = "done"
    /\ unique_clients = Clients

\* C15: once no request is between the read and the write of line 81,
\* request_count equals the number of requests started.
C15_NoLostUpdate ==
    (\A r \in Req : pc[r] # "L81") => request_count = Cardinality({r \in Req : pc[r] # "idle"})

\* C16: the active-requests gauge equals the number of requests that have passed
\* the increment of before_request and not the decrement of after_request (a
\* request whose exception propagated never reaches after_request and stays
\* counted), and is never negative.
C16_GaugeCountsOpenRequests ==
    /\ ACTIVE_CONNECTIONS
        = Cardinality({r \in Req : pc[r] \in {"dispatch", "L250", "L92", "L98", "propagated"}})
    /\ ACTIVE_CONNECTIONS >= 0

\* One request has run both hooks, another has run before_request only, and the
\* gauge shows one.
C16_Witness ==
    /\ ACTIVE_CONNECTIONS = 1
    /\ \E r, q \in Req : pc[r] = "done" /\ pc[q] \in {"dispatch", "L250", "propagated"}

\* C17: a dependency's connection handle is not None if and only if the
\* dependency is recorded Up.
C17_HandleIffUp ==
    /\ postgres_conn # None <=> service_health["postgres"]
    /\ redis_client # None <=> service_health["redis"]

\* C18: for every dependency whose connect has been attempted, the
\* database_connections gauge of its label is set, and is 1 if the dependency is
\* recorded Up and 0 if it is recorded Down.
C18_GaugeAgreesWithHealth ==
    \A d \in Dep :
        connect_result[d] # "not called" =>
            /\ d \in DOMAIN DATABASE_CONNECTIONS
            /\ DATABASE_CONNECTIONS[d] = IF service_health[d] THEN 1 ELSE 0

\* Both connects have been attempted, one failed and one succeeded, and the
\* gauges show 0 and 1.
C18_Witness ==
    /\ proc = "serving"
    /\ connect_result["postgres"] = "True" /\ GaugeOf(DATABASE_CONNECTIONS, "postgres") = 1
    /\ connect_result["redis"] = "False" /\ GaugeOf(DATABASE_CONNECTIONS, "redis") = 0

====
